---- MODULE Spec2Model ----
(***************************************************************************)
(* A model of src/rippa.py: the Transcode Watcher (TranscodeThread, a      *)
(* LoopThread), the Rip Orchestrator's poll cycle (RipThread.loop_step),   *)
(* the mount registry (_mounts, mount, unmount, mount_cleanup) and the     *)
(* __main__ block that starts and joins the two threads.                   *)
(*                                                                         *)
(* Three specifications share the variables:                               *)
(*   Spec      the watcher thread scanning wip/dvd while makemkvcon, an    *)
(*             external process, writes title files into it;               *)
(*   RipSpec   RipThread.loop_step called cycle after cycle on one drive,  *)
(*             then interpreter exit running mount_cleanup;                *)
(*   MainSpec  the __main__ block: both threads started, rip_thread        *)
(*             joined, transcode_thread stopped and joined.                *)
(***************************************************************************)
EXTENDS Integers, Sequences, FiniteSets, TLC

\* ------------------------------------------------------------------ bounds
\* Sizes a title file can take above the 1 MiB threshold.
MaxOver == 1
\* Orchestrator poll cycles explored.
MaxRipCycles == 3

\* --------------------------------------------------------- program values
\* transcode_file: "if size1 < 1024 * 1024"
MinSize == 1024 * 1024

\* os.path.getsize of a path that does not exist has no value.
NoFile == -1

\* The title files makemkvcon produces in one disc's WIP directory.
Files == {"t00", "t01"}

\* The disc identity f"{LABEL}-{UUID}" naming wip/dvd/<disc> and out/<disc>.
DiscNames == {"LABEL-UUID"}

Sizes == {0} \cup ((MinSize - 1) .. (MinSize + MaxOver))

\* Exit statuses of an external command.
ExitCodes == {0, 1}

\* os.listdir returns the entries in arbitrary order.
Perms(S) ==
    {s \in [1 .. Cardinality(S) -> S] : \A i, j \in 1 .. Cardinality(S) : i # j => s[i] # s[j]}

VARIABLES
    \* filesystem
    fsize,          \* size of wip/dvd/<disc>/<file>, NoFile when absent
    wstate,         \* makemkvcon's progress on each file: todo, open, closed
    wipRootExists,  \* wip/dvd exists
    wipDirs,        \* disc directories under wip/dvd
    outDirs,        \* disc directories under the output root
    outIso,         \* out/<disc>.iso exists
    outAudio,       \* out/redbook holds an entry ending with the disc's hash
    \* TranscodeThread
    tpc,            \* position of the watcher thread
    tstop,          \* its _stop_event
    tdiscs,         \* discs still to visit in loop_step's for loop
    tfiles,         \* files still to visit in transcode_disc's for loop
    tlisted,        \* what os.listdir(wip_path) returned in transcode_disc
    tcur,           \* file_path of the running transcode_file
    size1,          \* transcode_file's local size1
    log,            \* per file, what the current cycle did with it
    \* RipThread.loop_step on the drive
    disc,           \* what is in the drive
    ripPc,          \* position inside loop_step
    mounts,         \* the module-level list _mounts
    osMounted,      \* the kernel has the drive mounted at mnt_path
    skip_eject,     \* RipThread.skip_eject
    cyc,            \* what the current poll cycle did
    ripCycles,      \* loop_step calls so far
    \* process
    procPc,         \* running, cleanup (atexit), exited, cleanup_raised
    cleanIdx,       \* mount_cleanup's position in _mounts
    umountCalls,    \* umount invocations made by mount_cleanup so far
    umountOk,       \* of those, how many exited 0
    \* __main__
    mpc,            \* position of the main thread
    rthread,        \* rip_thread: unstarted, running, finished
    ripStop,        \* rip_thread._stop_event
    ripStopTests,   \* how often rip_thread read its _stop_event
    interrupted     \* KeyboardInterrupt was delivered to the main thread

fsVars == <<fsize, wstate, wipRootExists, wipDirs, outDirs, outIso, outAudio>>
tVars == <<tpc, tstop, tdiscs, tfiles, tlisted, tcur, size1, log>>
ripVars == <<disc, ripPc, mounts, osMounted, skip_eject, cyc, ripCycles>>
procVars == <<procPc, cleanIdx, umountCalls, umountOk>>
mainVars == <<mpc, rthread, ripStop, ripStopTests, interrupted>>
vars == <<fsVars, tVars, ripVars, procVars, mainVars>>

\* ------------------------------------------------------------ the watcher
\* What one watcher cycle has done with a file so far.
\*   s1, s2   the two size samples (NoFile: not taken)
\*   passed   ffmpeg invocations on the file
\*   open     makemkvcon still had the file open when ffmpeg was invoked
\*   exit     ffmpeg's exit status (NoFile: not run)
\*   del      os.remove of the file was carried out
\*   err      the statement of transcode_file that raised, "none" if none
\*   wr       makemkvcon appended to the file between the two samples
\*   done     transcode_file has returned or raised
\*   seq      position of the file in this cycle's for loop (0: not reached)
\*   perr     transcode_file raised on the file in an earlier cycle
FreshLog ==
    [f \in Files |-> [s1 |-> NoFile, s2 |-> NoFile, passed |-> 0, open |-> FALSE,
                      exit |-> NoFile, del |-> FALSE, err |-> "none", wr |-> FALSE,
                      done |-> FALSE, seq |-> 0, perr |-> FALSE]]

\* The log at the start of a cycle, remembering only earlier failures.
NextLog ==
    [f \in Files |-> [FreshLog[f] EXCEPT !.perr = log[f].perr \/ log[f].err # "none"]]

\* transcode_file line 142: files under 1 MiB are skipped.
TooSmallKiB(s) == s < 1024
TooSmall(s) == s < MinSize

\* transcode_file line 149: the size changed during the settle sleep.
SizeChangedNever(a, b) == FALSE
SizeChanged(a, b) == a # b

\* transcode_file line 147: the second sample reads the file again.
Sample2Stale(f) == size1
Sample2(f) == fsize[f]

\* execute lines 35-37: a nonzero exit status raises Exception(exitcode).
ExecuteNeverRaises(code) == FALSE
ExecuteRaises(code) == code # 0

\* transcode_disc lines 182-186: an exception of transcode_file is caught and
\* logged, and the for loop goes on with the next file.
OnFileErrorUncaught == "crashed"
OnFileError == "nextfile"

\* transcode_file returns: back in transcode_disc's for loop.
Returned(f, upd) ==
    /\ log' = [log EXCEPT ![f] = [upd EXCEPT !.done = TRUE]]
    /\ tpc' = "nextfile"
    /\ tcur' = "none"
    /\ size1' = 0

\* transcode_file raises at statement `what`.
Raised(f, upd, what) ==
    /\ log' = [log EXCEPT ![f] = [upd EXCEPT !.done = TRUE, !.err = what]]
    /\ tpc' = OnFileError
    /\ tcur' = "none"
    /\ size1' = 0

\* LoopThread.run line 115: the stop test; when clear, loop_step is called.
TRunTest ==
    /\ tpc = "test"
    /\ IF tstop
       THEN /\ tpc' = "exited"
            /\ UNCHANGED log
       ELSE /\ tpc' = "listroot"
            /\ log' = NextLog
    /\ UNCHANGED <<tstop, tdiscs, tfiles, tlisted, tcur, size1>>
    /\ UNCHANGED <<fsVars, ripVars, procVars, mainVars>>

\* TranscodeThread.loop_step line 191: os.listdir(wip_dvd_root), which raises
\* FileNotFoundError out of run when wip/dvd does not exist.
TListRoot ==
    /\ tpc = "listroot"
    /\ IF wipRootExists
       THEN /\ \E order \in Perms(wipDirs) : tdiscs' = order
            /\ tpc' = "nextdisc"
       ELSE /\ tpc' = "crashed"
            /\ UNCHANGED tdiscs
    /\ UNCHANGED <<tstop, tfiles, tlisted, tcur, size1, log>>
    /\ UNCHANGED <<fsVars, ripVars, procVars, mainVars>>

\* loop_step lines 191-193 and transcode_disc lines 172-178: the next disc
\* directory is listed; after the last one loop_step returns to run.
TNextDisc ==
    /\ tpc = "nextdisc"
    /\ IF tdiscs = << >>
       THEN /\ tpc' = "sleep"
            /\ UNCHANGED <<tdiscs, tfiles, tlisted>>
       ELSE LET present == {f \in Files : fsize[f] # NoFile}
            IN  /\ \E order \in Perms(present) : tfiles' = order
                /\ tlisted' = present
                /\ tdiscs' = Tail(tdiscs)
                /\ tpc' = "nextfile"
    /\ UNCHANGED <<tstop, tcur, size1, log>>
    /\ UNCHANGED <<fsVars, ripVars, procVars, mainVars>>

\* transcode_disc lines 180-183: the for loop takes the next file.
TNextFile ==
    /\ tpc = "nextfile"
    /\ IF tfiles = << >>
       THEN /\ tpc' = "nextdisc"
            /\ UNCHANGED <<tfiles, tcur, log>>
       ELSE /\ tcur' = Head(tfiles)
            /\ tfiles' = Tail(tfiles)
            /\ log' = [log EXCEPT ![Head(tfiles)].seq =
                                     Cardinality(tlisted) - Len(tfiles) + 1]
            /\ tpc' = "size1"
    /\ UNCHANGED <<tstop, tdiscs, tlisted, size1>>
    /\ UNCHANGED <<fsVars, ripVars, procVars, mainVars>>

\* transcode_file lines 138-144: the first sample and the 1 MiB test.
TSize1 ==
    /\ tpc = "size1"
    /\ \E ok \in BOOLEAN :
         IF ~ok \/ fsize[tcur] = NoFile
         THEN Raised(tcur, log[tcur], "size1")
         ELSE LET upd == [log[tcur] EXCEPT !.s1 = fsize[tcur]]
              IN  IF TooSmall(fsize[tcur])
                  THEN Returned(tcur, upd)
                  ELSE /\ log' = [log EXCEPT ![tcur] = upd]
                       /\ size1' = fsize[tcur]
                       /\ tpc' = "size2"
                       /\ UNCHANGED tcur
    /\ UNCHANGED <<tstop, tdiscs, tfiles, tlisted>>
    /\ UNCHANGED <<fsVars, ripVars, procVars, mainVars>>

\* transcode_file lines 146-151: after time.sleep(30), the second sample and
\* the comparison with the first.
TSize2 ==
    /\ tpc = "size2"
    /\ \E ok \in BOOLEAN :
         IF ~ok \/ fsize[tcur] = NoFile
         THEN Raised(tcur, log[tcur], "size2")
         ELSE LET size2 == Sample2(tcur)
                  upd == [log[tcur] EXCEPT !.s2 = size2]
              IN  IF SizeChanged(size1, size2)
                  THEN Returned(tcur, upd)
                  ELSE /\ log' = [log EXCEPT ![tcur] = upd]
                       /\ tpc' = "makedirs"
                       /\ UNCHANGED <<tcur, size1>>
    /\ UNCHANGED <<tstop, tdiscs, tfiles, tlisted>>
    /\ UNCHANGED <<fsVars, ripVars, procVars, mainVars>>

\* transcode_file line 153: os.makedirs(out_path, exist_ok=True).
TMakedirs ==
    /\ tpc = "makedirs"
    /\ \E ok \in BOOLEAN :
         IF ok
         THEN /\ outDirs' = outDirs \cup DiscNames
              /\ tpc' = "ffmpeg"
              /\ UNCHANGED <<tcur, size1, log>>
         ELSE /\ Raised(tcur, log[tcur], "makedirs")
              /\ UNCHANGED outDirs
    /\ UNCHANGED <<tstop, tdiscs, tfiles, tlisted>>
    /\ UNCHANGED <<fsize, wstate, wipRootExists, wipDirs, outIso, outAudio>>
    /\ UNCHANGED <<ripVars, procVars, mainVars>>

\* transcode_file lines 159-166: execute(["ffmpeg", "-i", file_path, ...],
\* capture=False), which raises on a nonzero exit status.
TFfmpeg ==
    /\ tpc = "ffmpeg"
    /\ \E code \in ExitCodes :
         LET upd == [log[tcur] EXCEPT !.passed = @ + 1,
                                      !.open = (wstate[tcur] = "open"),
                                      !.exit = code]
         IN  IF ExecuteRaises(code)
             THEN Raised(tcur, upd, "ffmpeg")
             ELSE /\ log' = [log EXCEPT ![tcur] = upd]
                  /\ tpc' = "remove"
                  /\ UNCHANGED <<tcur, size1>>
    /\ UNCHANGED <<tstop, tdiscs, tfiles, tlisted>>
    /\ UNCHANGED <<fsVars, ripVars, procVars, mainVars>>

\* transcode_file line 169: the per-disc WIP directories after
\* os.remove(file_path), which unlinks the file and nothing else.
DirsAfterRemovePruned(f) ==
    IF \A g \in Files \ {f} : fsize[g] = NoFile THEN wipDirs \ DiscNames ELSE wipDirs
DirsAfterRemove(f) == wipDirs

\* transcode_file line 169: os.remove(file_path), the last statement.
TRemove ==
    /\ tpc = "remove"
    /\ \E ok \in BOOLEAN :
         IF ok /\ fsize[tcur] # NoFile
         THEN /\ fsize' = [fsize EXCEPT ![tcur] = NoFile]
              /\ wipDirs' = DirsAfterRemove(tcur)
              /\ Returned(tcur, [log[tcur] EXCEPT !.del = TRUE])
         ELSE /\ Raised(tcur, log[tcur], "remove")
              /\ UNCHANGED <<fsize, wipDirs>>
    /\ UNCHANGED <<tstop, tdiscs, tfiles, tlisted>>
    /\ UNCHANGED <<wstate, wipRootExists, outDirs, outIso, outAudio>>
    /\ UNCHANGED <<ripVars, procVars, mainVars>>

\* LoopThread.run line 117: time.sleep(self._interval), then the next test.
TSleep ==
    /\ tpc = "sleep"
    /\ tpc' = "test"
    /\ UNCHANGED <<tstop, tdiscs, tfiles, tlisted, tcur, size1, log>>
    /\ UNCHANGED <<fsVars, ripVars, procVars, mainVars>>

\* StoppableThread.stop lines 99-100, called on the watcher thread.
TStop ==
    /\ tpc \notin {"unstarted", "exited", "crashed"}
    /\ ~tstop
    /\ tstop' = TRUE
    /\ UNCHANGED <<tpc, tdiscs, tfiles, tlisted, tcur, size1, log>>
    /\ UNCHANGED <<fsVars, ripVars, procVars, mainVars>>

\* ------------------------------------------- makemkvcon, the external ripper
\* rip_dvd lines 242-248 hand wip/dvd/<disc> to makemkvcon, which creates each
\* title file, appends to it and closes it; the watcher sees only the sizes.
RipperCreate(f) ==
    /\ wipRootExists /\ wipDirs # {}
    /\ wstate[f] = "todo"
    /\ wstate' = [wstate EXCEPT ![f] = "open"]
    /\ fsize' = [fsize EXCEPT ![f] = 0]
    /\ UNCHANGED <<wipRootExists, wipDirs, outDirs, outIso, outAudio>>
    /\ UNCHANGED <<tVars, ripVars, procVars, mainVars>>

RipperWrite(f) ==
    /\ wstate[f] = "open"
    /\ fsize[f] # NoFile
    /\ \E s \in Sizes : s > fsize[f] /\ fsize' = [fsize EXCEPT ![f] = s]
    /\ log' = IF tpc = "size2" /\ tcur = f
              THEN [log EXCEPT ![f].wr = TRUE]
              ELSE log
    /\ UNCHANGED <<wstate, wipRootExists, wipDirs, outDirs, outIso, outAudio>>
    /\ UNCHANGED <<tpc, tstop, tdiscs, tfiles, tlisted, tcur, size1>>
    /\ UNCHANGED <<ripVars, procVars, mainVars>>

RipperClose(f) ==
    /\ wstate[f] = "open"
    /\ wstate' = [wstate EXCEPT ![f] = "closed"]
    /\ UNCHANGED <<fsize, wipRootExists, wipDirs, outDirs, outIso, outAudio>>
    /\ UNCHANGED <<tVars, ripVars, procVars, mainVars>>


\* ------------------------------------------------- the orchestrator's cycle
\* RipThread.__init__ lines 209-217: the attributes an instance has.
RipThreadAttrs ==
    {"drive", "wip_path", "dvd_path", "redbook_path", "iso_path", "bluray_path",
     "skip_eject", "makemkv_update_key", "makemkv_settings_path"}

\* Reading self.<a> raises AttributeError when the instance has no such
\* attribute.
HasAttr(a) == a \in RipThreadAttrs

\* loop_step line 344: mnt_path = f"./mnt{self.drive}".
MntPath == "./mnt/dev/sr0"

\* The WIP and output trees.
Trees == <<fsize, wipRootExists, wipDirs, outDirs, outIso, outAudio>>

\* What one poll cycle has done so far.
\*   kind        how the cycle classified the disc: none (not yet), nodisc,
\*               audio, dvd, data
\*   resolved    blkid gave LABEL and UUID, the identity of the disc
\*   outAtStart  the output artifact of that identity existed at the start
\*   mountCalls  mount invocations, ripCalls external ripper invocations,
\*   ejects      eject invocations of the cycle
\*   regAtStart  _mounts at the start, trees the trees at the start
\*   exc         the exception that left loop_step, "none" if it returned
\*   ended       loop_step has returned or raised
\*   prev        kind of the cycle before
FreshCycle(prev) ==
    [kind |-> "none", resolved |-> FALSE, outAtStart |-> FALSE, mountCalls |-> 0,
     ripCalls |-> 0, ejects |-> 0, regAtStart |-> mounts, trees |-> Trees,
     exc |-> "none", ended |-> FALSE, prev |-> prev]

\* rip_dvd lines 219-250, as the outcomes it can have: the exception that
\* leaves it, whether makemkvcon was invoked, whether wip/dvd/<disc> was
\* cleared and recreated and out/<disc> created.
RipDvd(outExists) ==
    IF ~HasAttr("wip_root") \/ ~HasAttr("out_root")
    THEN {[exc |-> "AttributeError", rip |-> 0, prepared |-> FALSE]}
    ELSE IF outExists
         THEN {[exc |-> "none", rip |-> 0, prepared |-> FALSE]}
         ELSE {[exc |-> IF ExecuteRaises(code) THEN "Exception" ELSE "none",
                rip |-> 1, prepared |-> TRUE] : code \in ExitCodes}

\* rip_data_disc lines 286-313: the command list starts with "dd" "if=...",
\* one string, so that execute cannot start the program.
RipDataDisc(outExists) ==
    IF ~HasAttr("wip_root") \/ ~HasAttr("out_root")
    THEN {[exc |-> "AttributeError", rip |-> 0, prepared |-> FALSE]}
    ELSE IF outExists
         THEN {[exc |-> "none", rip |-> 0, prepared |-> FALSE]}
         ELSE {[exc |-> "FileNotFoundError", rip |-> 1, prepared |-> FALSE]}

\* rip_redbook lines 252-284: self.out_root is read at line 257, before the
\* output tree is listed (lines 259-262) and before abcde is invoked (lines
\* 271-277); moved is the shutil.move of lines 283-284, reached when abcde
\* exited 0.
RipRedbook(outExists) ==
    IF ~HasAttr("out_root") \/ ~HasAttr("wip_root")
    THEN {[exc |-> "AttributeError", rip |-> 0, moved |-> FALSE]}
    ELSE IF outExists
         THEN {[exc |-> "none", rip |-> 0, moved |-> FALSE]}
         ELSE {[exc |-> IF ExecuteRaises(code) THEN "Exception" ELSE "none",
                rip |-> 1, moved |-> ~ExecuteRaises(code)] : code \in ExitCodes}

\* loop_step lines 336-338: CalledProcessError of the audio probe is caught
\* and loop_step returns.
OnCdparanoiaErrorRaise == "CalledProcessError"
OnCdparanoiaError == "none"

\* loop_step ends: it returned (exc = "none") or exc left it.
CycleEnd(c, exc) ==
    /\ cyc' = [c EXCEPT !.exc = exc, !.ended = TRUE]
    /\ ripPc' = "idle"

\* loop_step lines 319-325: the block-device probe. blkid prints LABEL and UUID
\* for a disc with a filesystem and exits nonzero with no output otherwise (or
\* while the drive is not ready).
RipProbe ==
    /\ procPc = "running"
    /\ ripPc = "idle"
    /\ ripCycles < MaxRipCycles
    /\ ripCycles' = ripCycles + 1
    /\ \E ready \in BOOLEAN :
         LET fresh == FreshCycle(cyc.kind)
         IN  IF ready /\ disc \in {"dvd", "data"}
             THEN /\ cyc' = [fresh EXCEPT
                               !.resolved = TRUE,
                               !.outAtStart = IF disc = "dvd"
                                              THEN DiscNames \subseteq outDirs
                                              ELSE outIso]
                  /\ ripPc' = "mount"
             ELSE /\ cyc' = fresh
                  /\ ripPc' = "cdparanoia"
    /\ UNCHANGED <<disc, mounts, osMounted, skip_eject>>
    /\ UNCHANGED <<fsVars, tVars, procVars, mainVars>>

\* loop_step lines 325-338: no blkid output. cdparanoia -sQ exits 0 for an
\* audio disc: rip_redbook, then eject unless skip_eject; its nonzero exit
\* means no disc.
RipCdparanoia ==
    /\ ripPc = "cdparanoia"
    /\ IF disc = "audio"
       THEN \E o \in RipRedbook(outAudio) :
              LET c == [cyc EXCEPT !.kind = "audio", !.outAtStart = outAudio,
                                   !.ripCalls = @ + o.rip]
              IN  /\ outAudio' = (outAudio \/ o.moved)
                  /\ IF o.exc # "none"
                     THEN /\ CycleEnd(c, o.exc)
                          /\ UNCHANGED <<disc, osMounted>>
                     ELSE IF skip_eject
                          THEN /\ CycleEnd(c, "none")
                               /\ UNCHANGED <<disc, osMounted>>
                          ELSE /\ CycleEnd([c EXCEPT !.ejects = @ + 1], "none")
                               /\ disc' = "none"
                               /\ osMounted' = FALSE
       ELSE /\ CycleEnd([cyc EXCEPT !.kind = "nodisc"], OnCdparanoiaError)
            /\ UNCHANGED <<disc, osMounted, outAudio>>
    /\ UNCHANGED <<mounts, skip_eject, ripCycles>>
    /\ UNCHANGED <<fsize, wstate, wipRootExists, wipDirs, outDirs, outIso>>
    /\ UNCHANGED <<tVars, procVars, mainVars>>

\* mount lines 82-83: _mounts.append(dest) follows execute(["sudo", "mount",
\* source, dest]) and is reached only when execute returned.
MountRegistersAlways(code) == TRUE
MountRegisters(code) == ~ExecuteRaises(code)

\* mount lines 80-83, called at loop_step lines 344-348: an exception of mount
\* is caught and logged. The kernel refuses to mount a drive that is already
\* mounted there; the drive is mounted afterwards iff it was or mount exited 0.
RipMount ==
    /\ ripPc = "mount"
    /\ \E code \in ExitCodes :
         /\ (code = 0) => ~osMounted
         /\ osMounted' = (osMounted \/ code = 0)
         /\ mounts' = IF MountRegisters(code)
                      THEN Append(mounts, MntPath)
                      ELSE mounts
    /\ cyc' = [cyc EXCEPT !.mountCalls = @ + 1]
    /\ ripPc' = "dispatch"
    /\ UNCHANGED <<disc, skip_eject, ripCycles>>
    /\ UNCHANGED <<fsVars, tVars, procVars, mainVars>>

\* loop_step lines 350-357: VIDEO_TS under the mount point selects rip_dvd,
\* otherwise rip_data_disc; then eject unless skip_eject. eject unmounts.
RipDispatch ==
    /\ ripPc = "dispatch"
    /\ LET video == osMounted /\ disc = "dvd"
           kind == IF video THEN "dvd" ELSE "data"
           outs == IF video
                   THEN RipDvd(DiscNames \subseteq outDirs)
                   ELSE RipDataDisc(outIso)
       IN  \E o \in outs :
             LET c == [cyc EXCEPT !.kind = kind, !.ripCalls = @ + o.rip]
             IN  /\ IF o.prepared
                    THEN /\ fsize' = [f \in Files |-> NoFile]
                         /\ wstate' = [f \in Files |-> "todo"]
                         /\ wipRootExists' = TRUE
                         /\ wipDirs' = wipDirs \cup DiscNames
                         /\ outDirs' = outDirs \cup DiscNames
                    ELSE UNCHANGED <<fsize, wstate, wipRootExists, wipDirs, outDirs>>
                 /\ IF o.exc # "none"
                    THEN /\ CycleEnd(c, o.exc)
                         /\ UNCHANGED <<disc, osMounted>>
                    ELSE IF skip_eject
                         THEN /\ CycleEnd(c, "none")
                              /\ UNCHANGED <<disc, osMounted>>
                         ELSE /\ CycleEnd([c EXCEPT !.ejects = @ + 1], "none")
                              /\ disc' = "none"
                              /\ osMounted' = FALSE
    /\ UNCHANGED <<mounts, skip_eject, ripCycles, outIso, outAudio>>
    /\ UNCHANGED <<tVars, procVars, mainVars>>

\* The operator puts a disc into the empty drive between two polls.
InsertDisc(k) ==
    /\ procPc = "running"
    /\ ripPc = "idle"
    /\ disc = "none"
    /\ disc' = k
    /\ UNCHANGED <<ripPc, mounts, osMounted, skip_eject, cyc, ripCycles>>
    /\ UNCHANGED <<fsVars, tVars, procVars, mainVars>>

\* The operator takes the disc out with the eject command, which unmounts it.
RemoveDisc ==
    /\ procPc = "running"
    /\ ripPc = "idle"
    /\ disc # "none"
    /\ disc' = "none"
    /\ osMounted' = FALSE
    /\ UNCHANGED <<ripPc, mounts, skip_eject, cyc, ripCycles>>
    /\ UNCHANGED <<fsVars, tVars, procVars, mainVars>>

\* ----------------------------------------------------- interpreter exit
\* mount_cleanup lines 88-91 is registered with atexit: at exit it walks
\* _mounts from the first entry.
AtExit ==
    /\ procPc = "running"
    /\ procPc' = IF mounts = << >> THEN "exited" ELSE "cleanup"
    /\ cleanIdx' = 1
    /\ UNCHANGED <<umountCalls, umountOk>>

\* mount_cleanup line 91 and unmount lines 85-86: execute(["sudo", "umount",
\* mnt]) captures the output, so a nonzero exit raises CalledProcessError out
\* of unmount and out of mount_cleanup's for loop. umount fails on a path
\* where nothing is mounted and may fail on a busy one.
CleanupStep ==
    /\ procPc = "cleanup"
    /\ \E code \in ExitCodes :
         /\ (code = 0) => osMounted
         /\ umountCalls' = umountCalls + 1
         /\ IF code = 0
            THEN /\ osMounted' = FALSE
                 /\ umountOk' = umountOk + 1
                 /\ cleanIdx' = cleanIdx + 1
                 /\ procPc' = IF cleanIdx = Len(mounts) THEN "exited" ELSE "cleanup"
            ELSE /\ procPc' = "cleanup_raised"
                 /\ UNCHANGED <<osMounted, umountOk, cleanIdx>>
    /\ UNCHANGED <<disc, ripPc, mounts, skip_eject, cyc, ripCycles>>
    /\ UNCHANGED <<fsVars, tVars, mainVars>>

\* The process ends between two poll cycles.
RipShutdown ==
    /\ ripPc = "idle"
    /\ AtExit
    /\ UNCHANGED <<fsVars, tVars, ripVars, mainVars>>

\* --------------------------------------------------------- initial states
FsInit ==
    /\ fsize = [f \in Files |-> NoFile]
    /\ wstate = [f \in Files |-> "todo"]
    /\ wipRootExists \in BOOLEAN
    /\ wipDirs = IF wipRootExists THEN DiscNames ELSE {}
    /\ outDirs \in SUBSET DiscNames
    /\ outIso \in BOOLEAN
    /\ outAudio \in BOOLEAN

TInit(pc) ==
    /\ tpc = pc
    /\ tstop = FALSE
    /\ tdiscs = << >>
    /\ tfiles = << >>
    /\ tlisted = {}
    /\ tcur = "none"
    /\ size1 = 0
    /\ log = FreshLog

RipInit ==
    /\ disc = "none"
    /\ ripPc = "idle"
    /\ mounts = << >>
    /\ osMounted = FALSE
    /\ skip_eject \in BOOLEAN
    /\ cyc = FreshCycle("none")
    /\ ripCycles = 0

ProcInit ==
    /\ procPc = "running"
    /\ cleanIdx = 0
    /\ umountCalls = 0
    /\ umountOk = 0

MainInit(pc) ==
    /\ mpc = pc
    /\ rthread = "unstarted"
    /\ ripStop = FALSE
    /\ ripStopTests = 0
    /\ interrupted = FALSE

\* ---------------------------------------------------------- Spec: watcher
Init ==
    /\ FsInit
    /\ outIso = FALSE
    /\ outAudio = FALSE
    /\ outDirs = {}
    /\ TInit("test")
    /\ RipInit
    /\ skip_eject = FALSE
    /\ ProcInit
    /\ MainInit("none")

Next ==
    \/ TRunTest
    \/ TListRoot
    \/ TNextDisc
    \/ TNextFile
    \/ TSize1
    \/ TSize2
    \/ TMakedirs
    \/ TFfmpeg
    \/ TRemove
    \/ TSleep
    \/ TStop
    \/ \E f \in Files : RipperCreate(f)
    \/ \E f \in Files : RipperWrite(f)
    \/ \E f \in Files : RipperClose(f)

Spec == Init /\ [][Next]_vars

\* -------------------------------------------------- RipSpec: the poll cycle
RipSpecInit ==
    /\ FsInit
    /\ TInit("unstarted")
    /\ RipInit
    /\ ProcInit
    /\ MainInit("none")

RipNext ==
    \/ RipProbe
    \/ RipCdparanoia
    \/ RipMount
    \/ RipDispatch
    \/ \E k \in {"audio", "dvd", "data"} : InsertDisc(k)
    \/ RemoveDisc
    \/ RipShutdown
    \/ CleanupStep

RipSpec == RipSpecInit /\ [][RipNext]_vars

\* ------------------------------------------------------------- __main__
\* line 410: transcode_thread.start().
MainStartT ==
    /\ mpc = "start_t"
    /\ tpc' = "test"
    /\ mpc' = "start_r"
    /\ UNCHANGED <<tstop, tdiscs, tfiles, tlisted, tcur, size1, log>>
    /\ UNCHANGED <<rthread, ripStop, ripStopTests, interrupted>>
    /\ UNCHANGED <<fsVars, ripVars, procVars>>

\* line 411: rip_thread.start().
MainStartR ==
    /\ mpc = "start_r"
    /\ rthread' = "running"
    /\ mpc' = "join_r"
    /\ UNCHANGED <<ripStop, ripStopTests, interrupted>>
    /\ UNCHANGED <<fsVars, tVars, ripVars, procVars>>

\* class RipThread(StoppableThread), lines 196-217: neither RipThread nor
\* StoppableThread defines run, so the started thread executes
\* threading.Thread.run, which calls the target given to the constructor;
\* none was given, and the thread ends. loop_step is not called and
\* _stop_event is not read.
RipThreadRun ==
    /\ rthread = "running"
    /\ rthread' = "finished"
    /\ UNCHANGED <<mpc, ripStop, ripStopTests, interrupted>>
    /\ UNCHANGED <<fsVars, tVars, ripVars, procVars>>

\* lines 412-413: rip_thread.join() returns when the thread has ended.
MainJoinR ==
    /\ mpc = "join_r"
    /\ rthread = "finished"
    /\ mpc' = "stop_t"
    /\ UNCHANGED <<rthread, ripStop, ripStopTests, interrupted>>
    /\ UNCHANGED <<fsVars, tVars, ripVars, procVars>>

\* lines 414-415: KeyboardInterrupt is caught around rip_thread.join() only;
\* delivered to the main thread anywhere else it ends the main thread.
KeyboardInterrupt ==
    /\ mpc \in {"start_t", "start_r", "join_r", "stop_t", "join_t"}
    /\ mpc' = IF mpc = "join_r" THEN "stop_t" ELSE "killed"
    /\ interrupted' = TRUE
    /\ UNCHANGED <<rthread, ripStop, ripStopTests>>
    /\ UNCHANGED <<fsVars, tVars, ripVars, procVars>>

\* line 416: transcode_thread.stop().
MainStopT ==
    /\ mpc = "stop_t"
    /\ tstop' = TRUE
    /\ mpc' = "join_t"
    /\ UNCHANGED <<tpc, tdiscs, tfiles, tlisted, tcur, size1, log>>
    /\ UNCHANGED <<rthread, ripStop, ripStopTests, interrupted>>
    /\ UNCHANGED <<fsVars, ripVars, procVars>>

\* line 417: transcode_thread.join().
MainJoinT ==
    /\ mpc = "join_t"
    /\ tpc \in {"exited", "crashed"}
    /\ mpc' = "end"
    /\ UNCHANGED <<rthread, ripStop, ripStopTests, interrupted>>
    /\ UNCHANGED <<fsVars, tVars, ripVars, procVars>>

\* The main thread has ended: the interpreter waits for the threads that were
\* started and then runs the atexit handlers.
MainShutdown ==
    /\ mpc \in {"end", "killed"}
    /\ tpc \in {"unstarted", "exited", "crashed"}
    /\ rthread # "running"
    /\ AtExit
    /\ UNCHANGED <<fsVars, tVars, ripVars, mainVars>>

\* ------------------------------------------------ MainSpec: the whole process
\* The WIP tree as an earlier run left it: title files that are complete.
MainSpecInit ==
    /\ fsize \in [Files -> {NoFile, MinSize}]
    /\ wstate = [f \in Files |-> IF fsize[f] = NoFile THEN "todo" ELSE "closed"]
    /\ wipRootExists \in BOOLEAN
    /\ wipDirs = IF wipRootExists THEN DiscNames ELSE {}
    /\ (~wipRootExists) => fsize = [f \in Files |-> NoFile]
    /\ outDirs = {}
    /\ outIso = FALSE
    /\ outAudio = FALSE
    /\ TInit("unstarted")
    /\ RipInit
    /\ ProcInit
    /\ MainInit("start_t")

MainNext ==
    \/ MainStartT
    \/ MainStartR
    \/ RipThreadRun
    \/ MainJoinR
    \/ KeyboardInterrupt
    \/ MainStopT
    \/ MainJoinT
    \/ MainShutdown
    \/ TRunTest
    \/ TListRoot
    \/ TNextDisc
    \/ TNextFile
    \/ TSize1
    \/ TSize2
    \/ TMakedirs
    \/ TFfmpeg
    \/ TRemove
    \/ TSleep

MainSpec == MainSpecInit /\ [][MainNext]_vars

C2_SubMiBUntouched ==
    \A f \in Files :
        (log[f].s1 # NoFile /\ log[f].s1 < MinSize)
            => /\ log[f].passed = 0
               /\ ~log[f].del
               /\ fsize[f] # NoFile

\* A file of 1 MiB - 1 bytes was sampled and transcode_file has returned.
C2_Witness ==
    \E f \in Files : log[f].done /\ log[f].s1 = MinSize - 1 /\ log[f].err = "none"

\* C6: when the attempt on one file raises (size read, makedirs, transcoder
\* exit status or remove), control goes back to transcode_disc's for loop, so
\* that at the end of the cycle every listed file has been attempted, and the
\* watcher thread is not ended by it: it dies only in os.listdir of wip/dvd.
C6_FailureIsolation ==
    /\ [](tpc = "sleep" => \A f \in tlisted : log[f].done)
    /\ [][(\A f \in Files :
              (~log[f].done /\ log'[f].done /\ log'[f].err # "none")
                  => tpc' = "nextfile")
          /\ (tpc' = "crashed" => tpc \in {"listroot", "crashed"})]_vars

\* A later cycle in which a file that had failed before failed again and the
\* file listed after it was still attempted.
C6_Witness ==
    /\ tpc = "sleep"
    /\ \E f, g \in Files :
          /\ log[f].perr /\ log[f].err # "none"
          /\ log[f].seq < log[g].seq
          /\ log[g].done

\* C7 as stated: the watcher never passes to the transcoder, and never
\* deletes, a file makemkvcon has not finished writing.
C7_Orig ==
    \A f \in Files : log[f].passed > 0 => ~log[f].open

\* C7 amended: a file makemkvcon appended to between the two size samples of a
\* cycle is not passed to the transcoder and not deleted in that cycle; a file
\* still open whose size did not move during the settle sleep is passed.
C7_SettleHeuristic ==
    \A f \in Files : log[f].wr => (log[f].passed = 0 /\ ~log[f].del /\ fsize[f] # NoFile)

\* makemkvcon appended during the settle sleep and transcode_file returned.
C7_Witness ==
    \E f \in Files : log[f].wr /\ log[f].done /\ log[f].s1 >= MinSize

\* ------------------------------------------------- claims: the orchestrator
\* C3 as stated: when the output artifact of the disc's identity exists at the
\* start of a poll cycle, the cycle performs no mount and no external rip
\* invocation.
C3_Orig ==
    (cyc.ended /\ cyc.resolved /\ cyc.outAtStart)
        => (cyc.mountCalls = 0 /\ cyc.ripCalls = 0)

\* C4: a poll cycle in which blkid gave nothing and cdparanoia exited nonzero
\* mounts nothing, rips nothing, ejects nothing, leaves _mounts and the WIP and
\* output trees as they were, and loop_step returns (no exception leaves it),
\* so that the next poll cycle can be run.
C4_NoDiscCycle ==
    (cyc.ended /\ cyc.kind = "nodisc")
        => /\ cyc.mountCalls = 0
           /\ cyc.ripCalls = 0
           /\ cyc.ejects = 0
           /\ mounts = cyc.regAtStart
           /\ Trees = cyc.trees
           /\ cyc.exc = "none"
           /\ ripPc = "idle"

\* Two no-disc cycles in a row, with a mount registered before them.
C4_Witness ==
    /\ cyc.ended
    /\ cyc.kind = "nodisc"
    /\ cyc.prev = "nodisc"
    /\ mounts # << >>

\* C5 as stated: when the process has shut down, mount_cleanup has invoked
\* umount exactly once for every mount point in the registry: none twice, none
\* skipped.
C5_Orig ==
    procPc \in {"exited", "cleanup_raised"}
        => umountCalls = Cardinality({mounts[i] : i \in 1 .. Len(mounts)})

\* C10 as stated: a poll cycle that classified a disc (audio, DVD or data)
\* ejects the drive once when skip_eject is false and never when it is true.
C10_Orig ==
    (cyc.ended /\ cyc.kind \in {"audio", "dvd", "data"})
        => cyc.ejects = IF skip_eject THEN 0 ELSE 1

\* --------------------------------------------------- claims: the two loops
\* C8 as stated: each loop leaves its run only on a test of its stop signal
\* that found it set.
C8_Orig ==
    /\ rthread = "finished" => (ripStopTests >= 1 /\ ripStop)
    /\ tpc = "exited" => tstop

\* C9 as stated: once started, the Rip Orchestrator runs poll cycle after poll
\* cycle for as long as no stop has been requested: its thread does not end
\* before a stop was requested, nor without having run a poll cycle.
C9_Orig ==
    rthread = "finished" => (ripStop /\ ripCycles >= 1)

\* ------------------------------------------- claims: mounts and rip routines
\* loop_step lines 344-348: the cycle called mount and mount raised, so that
\* _mounts.append of line 83 was not reached.
MountFailed == cyc.mountCalls = 1 /\ mounts = cyc.regAtStart

\* C11 as stated: a poll cycle whose mount failed invokes no external ripper
\* (neither through rip_dvd nor through rip_data_disc) and loop_step returns,
\* no exception leaving it, so that the next cycle classifies again.
C11_Orig ==
    (cyc.ended /\ MountFailed) => (cyc.ripCalls = 0 /\ cyc.exc = "none")

\* C12 as stated: once an unmount of a registered path has succeeded the path
\* is no longer in _mounts; after an unmount that failed it still is.
C12_Orig ==
    /\ umountOk >= 1 => \A i \in 1 .. Len(mounts) : mounts[i] # MntPath
    /\ procPc = "cleanup_raised" => \E i \in 1 .. Len(mounts) : mounts[i] = MntPath

\* C13 as stated, for the orchestrator: a poll cycle whose mount or ripper
\* invocation exited nonzero abandons the rest of its work (it dispatches to
\* no rip routine after a failed mount) and loop_step returns, no exception
\* leaving it, so that the loop can run its next cycle.
C13_Orig ==
    /\ (cyc.ended /\ MountFailed) => (cyc.kind = "none" /\ cyc.exc = "none")
    /\ (cyc.ended /\ cyc.ripCalls >= 1) => cyc.exc = "none"

\* C14 as stated: the watcher is told to stop only by a shutdown request
\* (KeyboardInterrupt), never because the rip thread has ended; and the rip
\* thread is not told to stop because the watcher has ended.
C14_Orig ==
    /\ tstop => interrupted
    /\ ~ripStop

\* C15: _mounts changes only by the append of a mount call whose mount command
\* succeeded (the drive was not mounted before the step and is after it); a
\* mount call that failed leaves _mounts as it was.
C15_RegisterOnSuccess ==
    [][/\ mounts' # mounts
          => (mounts' = Append(mounts, MntPath) /\ ~osMounted /\ osMounted')
       /\ (ripPc = "mount" /\ ripPc' = "dispatch" /\ osMounted' = osMounted)
          => mounts' = mounts]_vars

\* A mount call has failed in a cycle that began with a registered mount, and
\* the registry is what it was.
C15_Witness ==
    /\ ripPc = "dispatch"
    /\ MountFailed
    /\ mounts # << >>
    /\ osMounted

\* C16 as stated: a DVD cycle for an identity whose output directory did not
\* exist has cleared and recreated wip/dvd/<disc>, created out/<disc> and then
\* invoked makemkvcon (once); it has not invoked the transcoder.
C16_Orig ==
    (cyc.ended /\ cyc.kind = "dvd" /\ ~cyc.outAtStart)
        => /\ cyc.ripCalls = 1
           /\ DiscNames \subseteq wipDirs
           /\ DiscNames \subseteq outDirs
           /\ \A f \in Files : log[f].passed = 0

\* C17 as stated: an audio cycle runs no ripper and moves nothing when the
\* output tree held an entry ending with the disc's fingerprint, and runs
\* abcde otherwise.
C17_Orig ==
    (cyc.ended /\ cyc.kind = "audio")
        => IF cyc.outAtStart
           THEN cyc.ripCalls = 0 /\ Trees = cyc.trees
           ELSE cyc.ripCalls = 1

\* C18: no step of the watcher removes a per-disc directory of the WIP tree
\* (or the WIP root): the directory outlives the deletion of its last file.
C18_WipDirKept ==
    [][wipDirs \subseteq wipDirs' /\ (wipRootExists => wipRootExists')]_vars

\* The watcher has deleted every title file of the disc in one cycle and the
\* disc's directory is still there.
C18_Witness ==
    /\ \A f \in Files : log[f].del /\ fsize[f] = NoFile
    /\ DiscNames \subseteq wipDirs

\* C19: the watcher has deleted a file only after its transcoder exited 0; a
\* file whose transcoder exited nonzero is not deleted and stays in place,
\* and a file that failed in one cycle and is still there is listed, hence
\* attempted, by the next listing of its directory.
C19_DeleteAfterSuccess ==
    /\ [](\A f \in Files :
            /\ log[f].del => log[f].exit = 0
            /\ log[f].exit = 1
                 => (~log[f].del /\ fsize[f] # NoFile /\ log[f].err = "ffmpeg"))
    /\ [][(tpc = "nextdisc" /\ tpc' = "nextfile")
             => \A f \in Files :
                  (log[f].perr /\ fsize[f] # NoFile) => f \in tlisted']_vars

\* A file that had failed in an earlier cycle was passed to the transcoder
\* again, which exited nonzero again; the file is in place.
C19_Witness ==
    \E f \in Files :
        /\ log[f].perr /\ log[f].done
        /\ log[f].passed = 1 /\ log[f].exit = 1
        /\ fsize[f] # NoFile

====
